---- MODULE Spec2Model ----
(***************************************************************************)
(* A model of the zlib shim CGRPCZlib.h of grpc-swift-nio-transport.       *)
(*                                                                         *)
(* The header defines nine one-line forwarding wrappers and a pointer      *)
(* cast.  Every wrapper is modelled as an operator that forwards to the    *)
(* zlib function of the same name; the zlib functions themselves are       *)
(* modelled after zlib 1.2.13 (the <zlib.h> the header includes), on a     *)
(* z_stream record, byte-exactly for the zlib wrapper format with stored   *)
(* and fixed-Huffman blocks, which is all deflate emits for the short      *)
(* inputs of the bounded domain below.                                     *)
(*                                                                         *)
(* A "Session" of the specification is one z_stream between its            *)
(* deflateInit2/inflateInit2 and its deflateEnd/inflateEnd:                *)
(*   open = *Init2, process = deflate/inflate, reset = *Reset,             *)
(*   close = *End, bound = deflateBound, done = (return = Z_STREAM_END),   *)
(*   BufferExhausted = Z_BUF_ERROR, CorruptStream = Z_DATA_ERROR,          *)
(*   InvalidConfig = Z_STREAM_ERROR from *Init2.                           *)
(***************************************************************************)
EXTENDS Integers, Sequences, FiniteSets, TLC

(***************************************************************************)
(* zlib.h constants                                                        *)
(***************************************************************************)
Z_OK == 0
Z_STREAM_END == 1
Z_NEED_DICT == 2
Z_STREAM_ERROR == -2
Z_DATA_ERROR == -3
Z_BUF_ERROR == -5

Z_NO_FLUSH == 0
Z_SYNC_FLUSH == 2
Z_FULL_FLUSH == 3
Z_FINISH == 4
Z_BLOCK == 5

Z_DEFLATED == 8
Z_DEFAULT_COMPRESSION == -1
Z_FILTERED == 1
Z_HUFFMAN_ONLY == 2
Z_RLE == 3
Z_FIXED == 4
MAX_MEM_LEVEL == 9
DEF_MEM_LEVEL == 8

\* deflate_state.status
INIT_STATE == 42
BUSY_STATE == 113
FINISH_STATE == 666

MIN_MATCH == 3
BASE == 65521   \* adler32 modulus

\* a z_stream whose state pointer is Z_NULL
Z_NULL == [kind |-> "Z_NULL"]

(***************************************************************************)
(* Bounds of the checked domain                                            *)
(***************************************************************************)
MaxLen == 3     \* longest plaintext fed to one Session
MaxCap == 3     \* largest of the "small" output buffers offered to a call
BigCap == 40    \* an output buffer that never fills in this domain

\* plaintext bytes: one with an 8-bit and one with a 9-bit fixed-Huffman code
Alphabet == {97, 200}

RECURSIVE SeqsUpTo(_)
SeqsUpTo(n) ==
  IF n = 0 THEN {<<>>}
  ELSE LET shorter == SeqsUpTo(n - 1)
       IN shorter \cup {Append(s, b) : s \in {t \in shorter : Len(t) = n - 1}, b \in Alphabet}

(***************************************************************************)
(* Bits and bytes                                                          *)
(***************************************************************************)
Min(a, b) == IF a < b THEN a ELSE b

RECURSIVE Pow2(_)
Pow2(n) == IF n = 0 THEN 1 ELSE 2 * Pow2(n - 1)

\* the low n bits of v, least significant first (send_bits order)
LsbBits(v, n) == [i \in 1..n |-> (v \div Pow2(i - 1)) % 2]

\* a Huffman code of n bits, most significant first (bi_reverse'd by zlib)
CodeBits(v, n) == [i \in 1..n |-> (v \div Pow2(n - i)) % 2]

RECURSIVE BitsVal(_)
BitsVal(bits) ==
  IF bits = <<>> THEN 0 ELSE Head(bits) + 2 * BitsVal(Tail(bits))

\* the whole bytes at the front of a bit string
WholeBytes(bits) ==
  [k \in 1..(Len(bits) \div 8) |-> BitsVal(SubSeq(bits, 8 * k - 7, 8 * k))]

\* the bits left over after the whole bytes
RestBits(bits) == SubSeq(bits, 8 * (Len(bits) \div 8) + 1, Len(bits))

\* bi_windup: pad to a byte boundary
Windup(bits) ==
  IF Len(bits) % 8 = 0 THEN bits
  ELSE bits \o [i \in 1..(8 - (Len(bits) % 8)) |-> 0]

Take(s, n) == SubSeq(s, 1, Min(n, Len(s)))
Drop(s, n) == SubSeq(s, Min(n, Len(s)) + 1, Len(s))

RECURSIVE adler32(_, _)
\* adler32(adler, buf), adler given as the pair (a, b) = (low, high) halves
adler32(ad, buf) ==
  IF buf = <<>> THEN ad
  ELSE LET a == (ad.a + Head(buf)) % BASE
       IN adler32([a |-> a, b |-> (ad.b + a) % BASE], Tail(buf))

ADLER_INIT == [a |-> 1, b |-> 0]

\* putShortMSB of the high half then the low half
AdlerBytes(ad) == <<ad.b \div 256, ad.b % 256, ad.a \div 256, ad.a % 256>>

(***************************************************************************)
(* deflate: block encoding (trees.c), for the blocks the domain produces   *)
(***************************************************************************)
Lit(b) == [len |-> 0, v |-> b]
Match(len, dist) == [len |-> len, v |-> dist]

\* static_ltree: the fixed literal/length code of symbol sym
FixedCode(sym) ==
  IF sym < 144 THEN CodeBits(48 + sym, 8)
  ELSE IF sym < 256 THEN CodeBits(400 + (sym - 144), 9)
  ELSE IF sym < 280 THEN CodeBits(sym - 256, 7)
  ELSE CodeBits(192 + (sym - 280), 8)

\* compress_block for one token; lengths 3..10 have codes 257..264 without
\* extra bits, distance 1 has the 5-bit code 0 without extra bits
TokenBits(tok) ==
  IF tok.len = 0 THEN FixedCode(tok.v)
  ELSE FixedCode(257 + (tok.len - MIN_MATCH)) \o CodeBits(tok.v - 1, 5)

RECURSIVE TokensBits(_)
TokensBits(toks) ==
  IF toks = <<>> THEN <<>> ELSE TokenBits(Head(toks)) \o TokensBits(Tail(toks))

\* _tr_flush_block with the static trees: header (STATIC_TREES<<1)+last,
\* the symbols, END_BLOCK
FixedBlockBits(toks, last) == <<last, 1, 0>> \o TokensBits(toks) \o CodeBits(0, 7)

\* the run of bytes equal to prev starting at window[p] (1-based)
RECURSIVE RunLen(_, _, _)
RunLen(window, p, prev) ==
  IF p > Len(window) \/ window[p] # prev THEN 0
  ELSE 1 + RunLen(window, p + 1, prev)

\* The symbols deflate_fast/deflate_slow/deflate_huff/deflate_rle tally for
\* window[strstart+1 .. Len(window)] (strstart is 0-based as in zlib).
\* deflate_rle matches a run of at least MIN_MATCH bytes equal to the
\* previous byte; the other three find no match in a window this short
\* (the hash chains need three bytes of lookahead and position 0 is NIL).
RECURSIVE Tally(_, _, _)
Tally(window, strstart, strategy) ==
  IF strstart >= Len(window) THEN <<>>
  ELSE LET lookahead == Len(window) - strstart
           run == IF strategy = Z_RLE /\ lookahead >= MIN_MATCH /\ strstart > 0
                  THEN Min(RunLen(window, strstart + 1, window[strstart]), 258)
                  ELSE 0
       IN IF run >= MIN_MATCH
          THEN <<Match(run, 1)>> \o Tally(window, strstart + run, strategy)
          ELSE <<Lit(window[strstart + 1])>> \o Tally(window, strstart + 1, strategy)

(***************************************************************************)
(* deflate: the stream (deflate.c)                                         *)
(***************************************************************************)
\* deflateStateCheck
deflateStateCheck(strm) == strm.state.kind # "deflate"

\* send_bits/put_byte followed by _tr_flush_bits: whole bytes go to pending
PutBits(s, bits) ==
  LET all == s.bi \o bits
  IN [s EXCEPT !.pending = @ \o WholeBytes(all), !.bi = RestBits(all)]

PutBytes(s, bytes) == [s EXCEPT !.pending = @ \o bytes]

\* _tr_stored_block(s, buf, len, last)
tr_stored_block(s, buf, last) ==
  LET h == PutBits(s, <<last, 0, 0>>)
      w == [h EXCEPT !.pending = @ \o WholeBytes(Windup(h.bi)), !.bi = <<>>]
      len == Len(buf)
      nlen == 65535 - len
  IN PutBytes(w, <<len % 256, len \div 256, nlen % 256, nlen \div 256>> \o buf)

\* flush_pending
flush_pending(strm) ==
  LET len == Min(Len(strm.state.pending), strm.avail_out)
  IN [strm EXCEPT !.next_out = @ \o Take(strm.state.pending, len),
                  !.avail_out = @ - len,
                  !.total_out = @ + len,
                  !.state.pending = Drop(@, len)]

\* read_buf of all the available input into the window (fill_window)
read_all(strm) ==
  LET buf == strm.next_in
  IN [strm EXCEPT !.next_in = <<>>,
                  !.total_in = @ + Len(buf),
                  !.adler = IF strm.state.wrap = 1 THEN adler32(@, buf) ELSE @,
                  !.state.window = @ \o buf]

RANK(f) == 2 * f - (IF f > 4 THEN 9 ELSE 0)

\* deflateInit2_
deflateInit2(strm, level, method, windowBits, memLevel, strategy) ==
  LET lvl == IF level = Z_DEFAULT_COMPRESSION THEN 6 ELSE level
      wrap == IF windowBits < 0 THEN 0 ELSE IF windowBits > 15 THEN 2 ELSE 1
      wb == IF windowBits < 0 THEN -windowBits
            ELSE IF windowBits > 15 THEN windowBits - 16 ELSE windowBits
  IN IF \/ memLevel < 1 \/ memLevel > MAX_MEM_LEVEL \/ method # Z_DEFLATED
        \/ wb < 8 \/ wb > 15 \/ lvl < 0 \/ lvl > 9
        \/ strategy < 0 \/ strategy > Z_FIXED \/ (wb = 8 /\ wrap # 1)
     THEN [strm |-> strm, ret |-> Z_STREAM_ERROR]
     ELSE [strm |-> [strm EXCEPT
                       !.total_in = 0, !.total_out = 0, !.adler = ADLER_INIT,
                       !.state = [kind |-> "deflate",
                                  status |-> INIT_STATE,
                                  wrap |-> wrap,
                                  level |-> lvl,
                                  strategy |-> strategy,
                                  w_bits |-> IF wb = 8 THEN 9 ELSE wb,
                                  hash_bits |-> memLevel + 7,
                                  pending |-> <<>>,
                                  bi |-> <<>>,
                                  last_flush |-> -2,
                                  window |-> <<>>,
                                  block_start |-> 0,
                                  lookahead |-> 0,
                                  walloc |-> 1]],
           ret |-> Z_OK]

\* deflateReset (deflateResetKeep, then lm_init)
deflateReset(strm) ==
  IF deflateStateCheck(strm) THEN [strm |-> strm, ret |-> Z_STREAM_ERROR]
  ELSE [strm |-> [strm EXCEPT
                    !.total_in = 0, !.total_out = 0, !.adler = ADLER_INIT,
                    !.state.pending = <<>>,
                    !.state.wrap = IF @ < 0 THEN -@ ELSE @,
                    !.state.status = INIT_STATE,
                    !.state.last_flush = -2,
                    !.state.bi = <<>>,
                    !.state.window = <<>>,
                    !.state.block_start = 0,
                    !.state.lookahead = 0],
        ret |-> Z_OK]

\* deflateEnd
deflateEnd(strm) ==
  IF deflateStateCheck(strm) THEN [strm |-> strm, ret |-> Z_STREAM_ERROR]
  ELSE [strm |-> [strm EXCEPT !.state = Z_NULL],
        ret |-> IF strm.state.status = BUSY_STATE THEN Z_DATA_ERROR ELSE Z_OK]

\* deflateBound
deflateBound(strm, sourceLen) ==
  LET fixedlen == sourceLen + (sourceLen \div 8) + (sourceLen \div 256)
                  + (sourceLen \div 512) + 4
      storelen == sourceLen + (sourceLen \div 32) + (sourceLen \div 128)
                  + (sourceLen \div 2048) + 7
      s == strm.state
      wraplen == IF s.wrap = 0 THEN 0
                 ELSE IF s.wrap = 1
                      THEN 6 + (IF Len(s.window) - s.lookahead # 0 THEN 4 ELSE 0)
                      ELSE 6
  IN IF deflateStateCheck(strm)
     THEN (IF fixedlen > storelen THEN fixedlen ELSE storelen) + 6
     ELSE IF s.w_bits # 15 \/ s.hash_bits # 8 + 7
          THEN (IF s.w_bits <= s.hash_bits THEN fixedlen ELSE storelen) + wraplen
          ELSE sourceLen + (sourceLen \div 4096) + (sourceLen \div 16384)
               + (sourceLen \div 33554432) + 13 - 6 + wraplen

\* deflate_stored (level 0), for windows and buffers far below min_block.
\* Result: the stream and the block_state.
deflate_stored(strm, flush) ==
  LET s == strm.state
      left == Len(s.window) - s.block_start
      all == left + Len(strm.next_in)
      last == IF flush = Z_FINISH THEN 1 ELSE 0
      \* the first loop copies one block straight to next_out when all of
      \* the input fits behind its 5 header bytes
      direct == /\ strm.avail_out >= 5
                /\ all <= strm.avail_out - 5
                /\ ~(all = 0 /\ flush # Z_FINISH)
                /\ flush # Z_NO_FLUSH
      filled == read_all(strm)
      data == SubSeq(filled.state.window, s.block_start + 1, Len(filled.state.window))
      stored == [filled EXCEPT
                   !.state = [tr_stored_block(@, data, last)
                                EXCEPT !.block_start = Len(filled.state.window)]]
      have == 65535
  IN IF direct
     THEN [strm |-> flush_pending(stored),
           bstate |-> IF last = 1 THEN "finish_done" ELSE "block_done"]
     ELSE IF flush # Z_NO_FLUSH /\ flush # Z_FINISH
             /\ strm.next_in = <<>> /\ left = 0
     THEN [strm |-> strm, bstate |-> "block_done"]
     ELSE IF (all > 0 \/ flush = Z_FINISH) /\ flush # Z_NO_FLUSH /\ all <= have
     THEN [strm |-> flush_pending(stored),
           bstate |-> IF last = 1 THEN "finish_started" ELSE "need_more"]
     ELSE [strm |-> filled, bstate |-> "need_more"]

\* deflate_fast, deflate_slow, deflate_huff and deflate_rle, for windows
\* below MIN_LOOKAHEAD: the input is read into the window; nothing is
\* emitted before a flush (deflate_huff tallies at once, the others keep
\* the bytes as lookahead); a flush emits one static block.  deflate_slow
\* (levels 4..9) alone tests avail_out after each literal it tallies: entered
\* with no output space (the header has just filled the buffer) it returns
\* need_more after its second position.
deflate_compress(strm, flush) ==
  LET filled == read_all(strm)
      s == filled.state
      la == strm.state.lookahead + Len(strm.next_in)
      slow == s.level >= 4 /\ s.strategy # Z_HUFFMAN_ONLY /\ s.strategy # Z_RLE
      toks == Tally(s.window, s.block_start, s.strategy)
      last == IF flush = Z_FINISH THEN 1 ELSE 0
      bits == FixedBlockBits(toks, last)
      put == PutBits(s, bits)
      emitted == [put EXCEPT
                    !.pending = IF last = 1 THEN @ \o WholeBytes(Windup(put.bi)) ELSE @,
                    !.bi = IF last = 1 THEN <<>> ELSE @,
                    !.block_start = Len(s.window),
                    !.lookahead = 0]
      flushed == flush_pending([filled EXCEPT !.state = emitted])
  IN IF flush = Z_NO_FLUSH
     THEN [strm |-> [filled EXCEPT !.state.lookahead =
                       IF s.strategy = Z_HUFFMAN_ONLY THEN 0 ELSE la],
           bstate |-> "need_more"]
     ELSE IF slow /\ strm.avail_out = 0 /\ la >= 2
     THEN [strm |-> [filled EXCEPT !.state.lookahead = la - 2],
           bstate |-> "need_more"]
     ELSE IF flush = Z_FINISH
     THEN [strm |-> flushed,
           bstate |-> IF flushed.avail_out = 0 THEN "finish_started" ELSE "finish_done"]
     ELSE IF toks # <<>>
     THEN [strm |-> flushed,
           bstate |-> IF flushed.avail_out = 0 THEN "need_more" ELSE "block_done"]
     ELSE [strm |-> [filled EXCEPT !.state.lookahead = 0], bstate |-> "block_done"]

\* the zlib header of deflate(): CMF, FLG with the level flags and FCHECK
deflate_header(s) ==
  LET level_flags == IF s.strategy >= Z_HUFFMAN_ONLY \/ s.level < 2 THEN 0
                     ELSE IF s.level < 6 THEN 1
                     ELSE IF s.level = 6 THEN 2 ELSE 3
      h0 == (Z_DEFLATED + (s.w_bits - 8) * 16) * 256 + level_flags * 64
      header == h0 + (31 - (h0 % 31))
  IN <<header \div 256, header % 256>>

\* deflate(), after the header has been written, in the stages it runs
\* through: the block, the flush marker, the trailer.  Each stage is an
\* operator of what the stages before it left.

\* the block: deflate_stored or the configured deflate_fast/_slow/_huff/_rle
\* runs when there is input, lookahead, or a flush to serve
deflate_block(strm, flush) ==
  LET s == strm.state
      run == \/ strm.next_in # <<>>
             \/ s.lookahead # 0
             \/ (flush # Z_NO_FLUSH /\ s.status # FINISH_STATE)
  IN IF ~run THEN [strm |-> strm, bstate |-> "skipped"]
     ELSE IF s.level = 0 THEN deflate_stored(strm, flush)
     ELSE deflate_compress(strm, flush)

\* finish_started and finish_done set status = FINISH_STATE
block_status(b) ==
  IF b.bstate \in {"finish_started", "finish_done"}
  THEN [b.strm EXCEPT !.state.status = FINISH_STATE] ELSE b.strm

\* block_done: the empty stored block of Z_SYNC_FLUSH / Z_FULL_FLUSH
\* (Z_FULL_FLUSH also forgets the history), then flush_pending
block_marker(st1, flush) ==
  flush_pending(
    [st1 EXCEPT
       !.state = [tr_stored_block(@, <<>>, 0) EXCEPT
                    !.window = IF flush = Z_FULL_FLUSH /\ st1.state.lookahead = 0
                               THEN <<>> ELSE @,
                    !.block_start = IF flush = Z_FULL_FLUSH /\ st1.state.lookahead = 0
                                    THEN 0 ELSE @]])

\* the trailer: the Adler-32 of the input, then wrap = -wrap
deflate_trailer(st2) ==
  flush_pending([st2 EXCEPT
                   !.state = [PutBytes(@, AdlerBytes(st2.adler)) EXCEPT !.wrap = -@]])

\* the return of deflate(): bstate is the block_state, st1 the stream after
\* the block, st2 the stream after the flush marker
deflate_leave(bstate, st1, st2, flush) ==
  IF bstate \in {"need_more", "finish_started"}
  THEN [strm |-> IF st1.avail_out = 0
                 THEN [st1 EXCEPT !.state.last_flush = -1] ELSE st1,
        ret |-> Z_OK]
  ELSE IF bstate = "block_done" /\ st2.avail_out = 0
  THEN [strm |-> [st2 EXCEPT !.state.last_flush = -1], ret |-> Z_OK]
  ELSE IF flush # Z_FINISH THEN [strm |-> st2, ret |-> Z_OK]
  ELSE IF st2.state.wrap <= 0 THEN [strm |-> st2, ret |-> Z_STREAM_END]
  ELSE [strm |-> deflate_trailer(st2),
        ret |-> IF deflate_trailer(st2).state.pending # <<>>
                THEN Z_OK ELSE Z_STREAM_END]

deflate_marked(bstate, st1, flush) ==
  deflate_leave(bstate, st1,
                IF bstate = "block_done" THEN block_marker(st1, flush) ELSE st1,
                flush)

deflate_blocked(b, flush) == deflate_marked(b.bstate, block_status(b), flush)

deflate_body(strm, flush) == deflate_blocked(deflate_block(strm, flush), flush)

\* the header, written in INIT_STATE: a raw stream has none, a zlib stream
\* gets CMF and FLG, and adler is initialised
deflate_init(fl) ==
  IF fl.state.status # INIT_STATE THEN fl
  ELSE IF fl.state.wrap = 0 THEN [fl EXCEPT !.state.status = BUSY_STATE]
  ELSE flush_pending([fl EXCEPT
         !.state = [PutBytes(@, deflate_header(@)) EXCEPT !.status = BUSY_STATE],
         !.adler = ADLER_INIT])

\* headed: the zlib header has just been written to hd; deflate returns
\* when the header did not fit into the output
deflate_headed(headed, hd, flush) ==
  IF headed /\ hd.state.pending # <<>>
  THEN [strm |-> [hd EXCEPT !.state.last_flush = -1], ret |-> Z_OK]
  ELSE deflate_body(hd, flush)

\* fl is the stream after last_flush has been set and the pending output
\* of earlier calls flushed
deflate_flushed(strm, fl, flush) ==
  LET old_flush == strm.state.last_flush
  IN IF strm.state.pending # <<>> /\ fl.avail_out = 0
     THEN [strm |-> [fl EXCEPT !.state.last_flush = -1], ret |-> Z_OK]
     ELSE IF strm.state.pending = <<>> /\ strm.next_in = <<>>
             /\ RANK(flush) <= RANK(old_flush) /\ flush # Z_FINISH
     THEN [strm |-> [strm EXCEPT !.state.last_flush = flush], ret |-> Z_BUF_ERROR]
     ELSE IF fl.state.status = FINISH_STATE /\ fl.next_in # <<>>
     THEN [strm |-> fl, ret |-> Z_BUF_ERROR]
     ELSE deflate_headed(fl.state.status = INIT_STATE /\ fl.state.wrap # 0,
                         deflate_init(fl), flush)

\* deflate
deflate(strm, flush) ==
  IF deflateStateCheck(strm) \/ flush > Z_BLOCK \/ flush < 0
  THEN [strm |-> strm, ret |-> Z_STREAM_ERROR]
  ELSE IF strm.state.status = FINISH_STATE /\ flush # Z_FINISH
  THEN [strm |-> strm, ret |-> Z_STREAM_ERROR]
  ELSE IF strm.avail_out = 0
  THEN [strm |-> strm, ret |-> Z_BUF_ERROR]
  ELSE deflate_flushed(strm,
                       flush_pending([strm EXCEPT !.state.last_flush = flush]),
                       flush)

(***************************************************************************)
(* inflate (inflate.c), as the state machine it is.  The working record    *)
(*   w = [st: inflate_state, in: input left, out: bytes written so far    *)
(*        in this call, left: output space left, ret]                      *)
(* stands for the local copies LOAD() makes and RESTORE() writes back.     *)
(***************************************************************************)
lbase == <<3, 4, 5, 6, 7, 8, 9, 10, 11, 13, 15, 17, 19, 23, 27, 31,
           35, 43, 51, 59, 67, 83, 99, 115, 131, 163, 195, 227, 258>>
lext == <<0, 0, 0, 0, 0, 0, 0, 0, 1, 1, 1, 1, 2, 2, 2, 2,
          3, 3, 3, 3, 4, 4, 4, 4, 5, 5, 5, 5, 0>>
dbase == <<1, 2, 3, 4, 5, 7, 9, 13, 17, 25, 33, 49, 65, 97, 129, 193,
           257, 385, 513, 769, 1025, 1537, 2049, 3073, 4097, 6145,
           8193, 12289, 16385, 24577>>
dext == <<0, 0, 0, 0, 1, 1, 2, 2, 3, 3, 4, 4, 5, 5, 6, 6,
          7, 7, 8, 8, 9, 9, 10, 10, 11, 11, 12, 12, 13, 13>>

\* the value of the first n bits of hold read as a Huffman code
CodeVal(hold, n) == BitsVal([i \in 1..n |-> hold[n + 1 - i]])

\* lencode = lenfix: the symbol at the front of hold and its length in
\* bits; bits = 0 when hold does not yet hold a whole code
DecodeLenfix(hold) ==
  LET n == Len(hold)
      v7 == CodeVal(hold, 7)
      v8 == CodeVal(hold, 8)
      v9 == CodeVal(hold, 9)
  IN IF n < 7 THEN [bits |-> 0, sym |-> 0]
     ELSE IF v7 < 24 THEN [bits |-> 7, sym |-> 256 + v7]
     ELSE IF n < 8 THEN [bits |-> 0, sym |-> 0]
     ELSE IF v8 < 192 THEN [bits |-> 8, sym |-> v8 - 48]
     ELSE IF v8 < 200 THEN [bits |-> 8, sym |-> 280 + (v8 - 192)]
     ELSE IF n < 9 THEN [bits |-> 0, sym |-> 0]
     ELSE [bits |-> 9, sym |-> 144 + (v9 - 400)]

inflateStateCheck(strm) == strm.state.kind # "inflate"

\* the bits of a byte string, each byte least significant bit first
BytesBits(bytes) ==
  [i \in 1..(8 * Len(bytes)) |-> (bytes[((i - 1) \div 8) + 1] \div Pow2((i - 1) % 8)) % 2]

\* NEEDBITS(n): PULLBYTE until hold has n bits or the input is used up
NeedBits(w, n) ==
  LET short == IF n > Len(w.st.hold) THEN n - Len(w.st.hold) ELSE 0
      k == Min((short + 7) \div 8, Len(w.in))
  IN [w EXCEPT !.st.hold = @ \o BytesBits(Take(w.in, k)), !.in = Drop(@, k)]

\* the PULLBYTE loop around lencode[BITS(lenbits)]: bytes are pulled one at
\* a time until hold begins with a whole code
NeedCode(w) ==
  LET w7 == NeedBits(w, 7)
      w8 == NeedBits(w7, 8)
      w9 == NeedBits(w8, 9)
  IN IF DecodeLenfix(w7.st.hold).bits # 0 \/ Len(w7.st.hold) < 7 THEN w7
     ELSE IF DecodeLenfix(w8.st.hold).bits # 0 \/ Len(w8.st.hold) < 8 THEN w8
     ELSE w9

DropBits(w, n) == [w EXCEPT !.st.hold = SubSeq(@, n + 1, Len(@))]

Bad(w) == [w EXCEPT !.st.mode = "BAD"]

\* put bytes at next_out (and so into the history a later match copies from)
Put(w, bytes) ==
  [w EXCEPT !.out = @ \o bytes, !.st.hist = @ \o bytes, !.left = @ - Len(bytes)]

\* the modes in which the stream is before CHECK (state->mode < CHECK)
BeforeCheck(mode) == mode \notin {"CHECK", "DONE", "BAD"}

\* one pass of the switch (state->mode) in the for (;;) of inflate: either
\* the loop goes round again (break) or it is left (goto inf_leave)
Again(w) == [w |-> w, again |-> TRUE]
Leave(w) == [w |-> w, again |-> FALSE]

inflate_step(w, flush) ==
  LET st == w.st
  IN
  CASE st.mode = "HEAD" ->
         LET n == NeedBits(w, 16)
             hold == n.st.hold
             cmf == BitsVal(SubSeq(hold, 1, 8))
             flg == BitsVal(SubSeq(hold, 9, 16))
             len == (cmf \div 16) + 8
         IN IF st.wrap = 0 THEN Again([w EXCEPT !.st.mode = "TYPEDO"])
            ELSE IF Len(hold) < 16 THEN Leave(n)
            ELSE IF (cmf * 256 + flg) % 31 # 0 THEN Again(Bad(n))
            ELSE IF cmf % 16 # Z_DEFLATED THEN Again(Bad(n))
            ELSE IF len > 15 \/ (st.wbits # 0 /\ len > st.wbits)
            THEN Again(Bad(DropBits(n, 4)))
            ELSE Again(
                   [n EXCEPT !.st.hold = <<>>,
                             !.st.wbits = IF @ = 0 THEN len ELSE @,
                             !.st.check = ADLER_INIT,
                             !.adler = ADLER_INIT,
                             !.st.mode = IF (flg \div 32) % 2 = 1
                                         THEN "DICTID" ELSE "TYPE"])
    [] st.mode = "DICTID" ->
         LET n == NeedBits(w, 32)
             b == WholeBytes(n.st.hold)
             id == [a |-> b[3] * 256 + b[4], b |-> b[1] * 256 + b[2]]
         IN IF Len(n.st.hold) < 32 THEN Leave(n)
            ELSE Again([n EXCEPT !.st.hold = <<>>, !.st.check = id,
                                        !.adler = id, !.st.mode = "DICT"])
    [] st.mode = "DICT" -> Leave([w EXCEPT !.ret = Z_NEED_DICT])
    [] st.mode = "TYPE" ->
         IF flush = Z_BLOCK THEN Leave(w)
         ELSE Again([w EXCEPT !.st.mode = "TYPEDO"])
    [] st.mode = "TYPEDO" ->
         LET n == NeedBits(w, 3)
             hold == n.st.hold
             type == hold[2] + 2 * hold[3]
         IN IF st.last = 1
            THEN Again([DropBits(w, Len(st.hold) % 8) EXCEPT !.st.mode = "CHECK"])
            ELSE IF Len(hold) < 3 THEN Leave(n)
            ELSE Again([DropBits(n, 3) EXCEPT
                                 !.st.last = hold[1],
                                 !.st.mode = CASE type = 0 -> "STORED"
                                               [] type = 1 -> "LEN"
                                               [] type = 2 -> "TABLE"
                                               [] OTHER -> "BAD"])
    [] st.mode = "STORED" ->
         LET n == NeedBits(DropBits(w, Len(st.hold) % 8), 32)
             h == n.st.hold
             len == BitsVal(SubSeq(h, 1, 16))
             nlen == BitsVal(SubSeq(h, 17, 32))
         IN IF Len(h) < 32 THEN Leave(n)
            ELSE IF len # 65535 - nlen THEN Again(Bad(n))
            ELSE Again([n EXCEPT !.st.hold = <<>>, !.st.length = len,
                                        !.st.mode = "COPY"])
    [] st.mode = "COPY" ->
         LET copy == Min(st.length, Min(Len(w.in), w.left))
         IN IF st.length = 0 THEN Again([w EXCEPT !.st.mode = "TYPE"])
            ELSE IF copy = 0 THEN Leave(w)
            ELSE Again([Put(w, Take(w.in, copy)) EXCEPT
                                 !.in = Drop(@, copy),
                                 !.st.length = @ - copy])
    [] st.mode = "LEN" ->
         LET n == NeedCode(w)
             here == DecodeLenfix(n.st.hold)
             d == DropBits(n, here.bits)
         IN IF here.bits = 0 THEN Leave(n)
            ELSE IF here.sym < 256
            THEN Again([d EXCEPT !.st.length = here.sym, !.st.mode = "LIT"])
            ELSE IF here.sym = 256
            THEN Again([d EXCEPT !.st.mode = "TYPE"])
            ELSE IF here.sym > 285 THEN Again(Bad(d))
            ELSE Again([d EXCEPT !.st.length = lbase[here.sym - 256],
                                        !.st.extra = lext[here.sym - 256],
                                        !.st.mode = "LENEXT"])
    [] st.mode = "LENEXT" ->
         LET n == NeedBits(w, st.extra)
         IN IF Len(n.st.hold) < st.extra THEN Leave(n)
            ELSE Again([DropBits(n, st.extra) EXCEPT
                                 !.st.length = @ + BitsVal(SubSeq(n.st.hold, 1, st.extra)),
                                 !.st.mode = "DIST"])
    [] st.mode = "DIST" ->
         LET n == NeedBits(w, 5)
             code == CodeVal(n.st.hold, 5)
             d == DropBits(n, 5)
         IN IF Len(n.st.hold) < 5 THEN Leave(n)
            ELSE IF code > 29 THEN Again(Bad(d))
            ELSE Again([d EXCEPT !.st.offset = dbase[code + 1],
                                        !.st.extra = dext[code + 1],
                                        !.st.mode = "DISTEXT"])
    [] st.mode = "DISTEXT" ->
         LET n == NeedBits(w, st.extra)
         IN IF Len(n.st.hold) < st.extra THEN Leave(n)
            ELSE Again([DropBits(n, st.extra) EXCEPT
                                 !.st.offset = @ + BitsVal(SubSeq(n.st.hold, 1, st.extra)),
                                 !.st.mode = "MATCH"])
    [] st.mode = "MATCH" ->
         LET copy == Min(st.length, w.left)
             from == Len(st.hist) - st.offset
             bytes == [k \in 1..copy |-> st.hist[from + 1 + ((k - 1) % st.offset)]]
         IN IF w.left = 0 THEN Leave(w)
            ELSE IF st.offset > Len(st.hist) THEN Again(Bad(w))
            ELSE Again([Put(w, bytes) EXCEPT
                                 !.st.length = @ - copy,
                                 !.st.mode = IF st.length = copy THEN "LEN" ELSE "MATCH"])
    [] st.mode = "LIT" ->
         IF w.left = 0 THEN Leave(w)
         ELSE Again([Put(w, <<st.length>>) EXCEPT !.st.mode = "LEN"])
    [] st.mode = "CHECK" ->
         LET n == NeedBits(w, 32)
             sum == adler32(ADLER_INIT, st.hist)
         IN IF st.wrap = 0 THEN Again([w EXCEPT !.st.mode = "DONE"])
            ELSE IF Len(n.st.hold) < 32 THEN Leave(n)
            ELSE IF WholeBytes(n.st.hold) # AdlerBytes(sum)
            THEN Again(Bad([n EXCEPT !.st.check = sum]))
            ELSE Again([n EXCEPT !.st.hold = <<>>, !.st.check = sum,
                                        !.st.mode = "DONE"])
    [] st.mode = "DONE" -> Leave([w EXCEPT !.ret = Z_STREAM_END])
    [] st.mode = "BAD" -> Leave([w EXCEPT !.ret = Z_DATA_ERROR])
    [] OTHER -> Leave([w EXCEPT !.ret = Z_STREAM_ERROR])   \* TABLE: outside the domain

RECURSIVE inflate_loop(_, _)
inflate_pass(pass, flush) ==
  IF pass.again THEN inflate_loop(pass.w, flush) ELSE pass.w

inflate_loop(w, flush) == inflate_pass(inflate_step(w, flush), flush)

\* inf_leave: RESTORE() and what follows it; w is what the loop left
inf_leave(strm, w, flush) ==
  LET in == Len(strm.next_in) - Len(w.in)
      out == Len(w.out)
      st == w.st
      \* updatewindow allocates the window on first use
      checked == st.mode = "DONE" /\ st.wrap # 0   \* CHECK has reset out
      upd == st.wsize \/ (out # 0 /\ ~checked /\ st.mode # "BAD"
                          /\ (BeforeCheck(st.mode) \/ flush # Z_FINISH))
      sum == adler32(ADLER_INIT, st.hist)
  IN IF w.ret = Z_NEED_DICT
     THEN [strm |-> [strm EXCEPT !.next_in = w.in, !.adler = w.adler, !.state = st],
           ret |-> Z_NEED_DICT]
     ELSE [strm |-> [strm EXCEPT
                       !.next_in = w.in,
                       !.next_out = @ \o w.out,
                       !.avail_out = w.left,
                       !.total_in = @ + in,
                       !.total_out = @ + out,
                       !.adler = IF st.wrap # 0 /\ out # 0 THEN sum ELSE w.adler,
                       !.state = [st EXCEPT
                                    !.check = IF st.wrap # 0 /\ out # 0 THEN sum ELSE @,
                                    !.wsize = upd,
                                    !.walloc = IF upd THEN 1 ELSE @]],
           ret |-> IF ((in = 0 /\ out = 0) \/ flush = Z_FINISH) /\ w.ret = Z_OK
                   THEN Z_BUF_ERROR ELSE w.ret]

\* inflate
inflate(strm, flush) ==
  IF inflateStateCheck(strm) THEN [strm |-> strm, ret |-> Z_STREAM_ERROR]
  ELSE inf_leave(strm,
                 inflate_loop([st |-> strm.state, in |-> strm.next_in, out |-> <<>>,
                               left |-> strm.avail_out, ret |-> Z_OK,
                               adler |-> strm.adler], flush),
                 flush)

\* inflateInit2_ (inflateReset2, inflateReset, inflateResetKeep)
inflateInit2(strm, windowBits) ==
  LET wrap == IF windowBits < 0 THEN 0 ELSE (windowBits \div 16) + 5
      wb == IF windowBits < 0 THEN -windowBits
            ELSE IF windowBits < 48 THEN windowBits % 16 ELSE windowBits
  IN IF windowBits < -15 \/ (wb # 0 /\ (wb < 8 \/ wb > 15))
     THEN [strm |-> [strm EXCEPT !.state = Z_NULL], ret |-> Z_STREAM_ERROR]
     ELSE [strm |-> [strm EXCEPT
                       !.total_in = 0, !.total_out = 0,
                       !.adler = IF wrap # 0 THEN [a |-> wrap % 2, b |-> 0] ELSE @,
                       !.state = [kind |-> "inflate",
                                  mode |-> "HEAD",
                                  wrap |-> wrap,
                                  wbits |-> wb,
                                  last |-> 0,
                                  hold |-> <<>>,
                                  length |-> 0,
                                  offset |-> 0,
                                  extra |-> 0,
                                  check |-> ADLER_INIT,
                                  hist |-> <<>>,
                                  wsize |-> FALSE,
                                  walloc |-> 0]],
           ret |-> Z_OK]

\* the slip of leaving the mode as it is
inflateReset_modeless(strm) ==
  IF inflateStateCheck(strm) THEN [strm |-> strm, ret |-> Z_STREAM_ERROR]
  ELSE [strm |-> [strm EXCEPT !.total_in = 0, !.total_out = 0], ret |-> Z_OK]

\* inflateReset (and inflateResetKeep)
inflateReset(strm) ==
  IF inflateStateCheck(strm) THEN [strm |-> strm, ret |-> Z_STREAM_ERROR]
  ELSE [strm |-> [strm EXCEPT
                    !.total_in = 0, !.total_out = 0,
                    !.adler = IF strm.state.wrap # 0
                              THEN [a |-> strm.state.wrap % 2, b |-> 0] ELSE @,
                    !.state.mode = "HEAD",
                    !.state.last = 0,
                    !.state.hold = <<>>,
                    !.state.hist = <<>>,
                    !.state.wsize = FALSE],
        ret |-> Z_OK]

\* inflateEnd
inflateEnd(strm) ==
  IF inflateStateCheck(strm) THEN [strm |-> strm, ret |-> Z_STREAM_ERROR]
  ELSE [strm |-> [strm EXCEPT !.state = Z_NULL], ret |-> Z_OK]

(***************************************************************************)
(* The shim: CGRPCZlib.h                                                   *)
(***************************************************************************)
\* the slip of passing windowBits and memLevel in each other's place
deflateInit2_swapped(stream, level, method, windowBits, memLevel, strategy) ==
  deflateInit2(stream, level, method, memLevel, windowBits, strategy)

CGRPCNIOTransportZlib_deflateInit2(stream, level, method, windowBits, memLevel, strategy) ==
  deflateInit2(stream, level, method, windowBits, memLevel, strategy)

CGRPCNIOTransportZlib_deflateBound(strm, sourceLen) == deflateBound(strm, sourceLen)

\* the slip of not passing flush on
deflate_unflushed(strm, flush) == deflate(strm, Z_NO_FLUSH)

\* the slip of finishing the stream at every call
deflate_finishing(strm, flush) == deflate(strm, Z_FINISH)

\* the slip of starting the stream over at every call
deflate_afresh(strm, flush) == deflate(deflateReset(strm).strm, flush)

CGRPCNIOTransportZlib_deflate(strm, flush) == deflate(strm, flush)

\* the slip of clearing the counters only
deflateReset_counters(strm) ==
  [strm |-> IF deflateStateCheck(strm) THEN strm
            ELSE [strm EXCEPT !.total_in = 0, !.total_out = 0],
   ret |-> IF deflateStateCheck(strm) THEN Z_STREAM_ERROR ELSE Z_OK]

CGRPCNIOTransportZlib_deflateReset(strm) == deflateReset(strm)

CGRPCNIOTransportZlib_deflateEnd(strm) == deflateEnd(strm)

\* the slip of opening every decoder with the smallest window
inflateInit2_smallest(stream, windowBits) == inflateInit2(stream, 9)

CGRPCNIOTransportZlib_inflateInit2(stream, windowBits) == inflateInit2(stream, windowBits)

CGRPCNIOTransportZlib_inflate(strm, flush) == inflate(strm, flush)

\* the slip of keeping the counters
inflateReset_counting(strm) ==
  [strm |-> [inflateReset(strm).strm EXCEPT !.total_in = strm.total_in,
                                            !.total_out = strm.total_out],
   ret |-> inflateReset(strm).ret]

CGRPCNIOTransportZlib_inflateReset(strm) == inflateReset(strm)

\* the slip of dropping what inflateEnd returns
inflateEnd_silent(strm) == [strm |-> inflateEnd(strm).strm, ret |-> Z_OK]

CGRPCNIOTransportZlib_inflateEnd(strm) == inflateEnd(strm)

(***************************************************************************)
(* The caller's side of a call: it points next_in at its unconsumed input  *)
(* and next_out at an empty buffer of cap bytes                            *)
(***************************************************************************)
NewStream ==
  [next_in |-> <<>>, next_out |-> <<>>, avail_out |-> 0,
   total_in |-> 0, total_out |-> 0, adler |-> ADLER_INIT, state |-> Z_NULL]

WithBuffers(strm, input, cap) ==
  [strm EXCEPT !.next_in = input, !.next_out = <<>>, !.avail_out = cap]

(***************************************************************************)
(* One-shot encoding with the shim: open, one deflate call with Z_FINISH   *)
(* and room for everything, as the caller of a whole payload does          *)
(***************************************************************************)
Options(level, windowBits, memLevel, strategy) ==
  [level |-> level, windowBits |-> windowBits, memLevel |-> memLevel,
   strategy |-> strategy]

OpenCompress(o) ==
  CGRPCNIOTransportZlib_deflateInit2(NewStream, o.level, Z_DEFLATED,
                                     o.windowBits, o.memLevel, o.strategy)

OneShot(o, S) ==
  CGRPCNIOTransportZlib_deflate(WithBuffers(OpenCompress(o).strm, S, BigCap),
                                Z_FINISH).strm.next_out

\* b with the bits of mask flipped (mask is one bit: a power of two)
FlipBit(b, mask) == IF (b \div mask) % 2 = 1 THEN b - mask ELSE b + mask

\* The damage done to a stream on its way to the decoder: nothing, one
\* flipped bit, the loss of its last bytes, or a byte that follows it
Corrupt(stream, c) ==
  CASE c.kind = "none" -> stream
    [] c.kind = "flip" ->
         IF c.at <= Len(stream)
         THEN [stream EXCEPT ![c.at] = FlipBit(@, c.mask)] ELSE stream
    [] c.kind = "cut"  -> Take(stream, Len(stream) - Min(c.at, Len(stream)))
    [] c.kind = "more" -> Append(stream, c.mask)

(***************************************************************************)
(* A Session: one z_stream opened for one direction, and its caller        *)
(***************************************************************************)
VARIABLES
  strm,     \* the z_stream the caller owns
  dir,      \* "none" until an open succeeds, then "compress"/"decompress"
  opts,     \* the options of the open call
  plain,    \* the payload S this run is about
  input,    \* the bytes the caller has for the Session, from the start
  rest,     \* the part of input the Session has not consumed yet
  wire,     \* the output collected from the Session since open or reset
  op,       \* the last call: its name and arguments
  gave,     \* the input the last call used and the output it wrote
  ret,      \* what the last call returned
  pre,      \* lifecycle state and totals just before the last call
  direct,   \* the same call made on zlib itself, without the shim
  twin,     \* a second stream: the decoder of a round trip, or the
            \* freshly opened Session a reset one is compared with
  life      \* the Session's lifecycle state, as its caller knows it

vars ==
  <<strm, dir, opts, plain, input, rest, wire, op, gave, ret, pre, direct, twin,
    life>>

\* The stream is complete: deflate has written the trailer and handed it
\* out, inflate has verified the trailer
Complete(s) ==
  CASE s.state.kind = "deflate" ->
         /\ s.state.status = FINISH_STATE
         /\ s.state.wrap <= 0
         /\ s.state.pending = <<>>
    [] s.state.kind = "inflate" -> s.state.mode = "DONE"
    [] OTHER -> FALSE

\* The lifecycle state after a call that returned r: a Session exists once
\* an open has succeeded, is Ended once a process call has reported done
\* (Z_STREAM_END), is Active again once a reset has succeeded, and is
\* Closed once its state has been freed
Life(was, name, r) ==
  CASE name = "open" -> IF r.ret = Z_OK THEN "Active" ELSE "None"
    [] name = "process" ->
         IF was \in {"Active", "Ended"} /\ r.ret = Z_STREAM_END THEN "Ended" ELSE was
    [] name = "reset" -> IF r.ret = Z_OK THEN "Active" ELSE was
    [] name = "close" -> IF r.strm.state = Z_NULL THEN "Closed" ELSE was
    [] OTHER -> was

\* Corrupt: inflate has met bytes that are no zlib stream (mode BAD)
Corrupted(s) == s.state.kind = "inflate" /\ s.state.mode = "BAD"

Snapshot(l, s) ==
  [life |-> l, corrupt |-> Corrupted(s),
   walloc |-> IF s.state = Z_NULL THEN 0 ELSE s.state.walloc,
   total_in |-> s.total_in, total_out |-> s.total_out]

\* a call: its name and arguments (n input bytes offered, room for cap)
Call(name, flush, n, cap) == [name |-> name, flush |-> flush, n |-> n, cap |-> cap]

\* what a call did with the caller's buffers: input used, output written
Gave(used, out) == [used |-> used, out |-> out]

NoFlush == 0 - 1   \* the flush field of a call that takes no flush argument

\* The caller takes its buffers back after a call
Detach(s) == [s EXCEPT !.next_in = <<>>, !.next_out = <<>>, !.avail_out = 0]

\* What a call leaves behind, as the caller sees it
Outcome(r) == [strm |-> Detach(r.strm), ret |-> r.ret]

NoOptions == Options(0, 0, 0, 0)

Init ==
  /\ strm = NewStream
  /\ dir = "none"
  /\ opts = NoOptions
  /\ plain = <<>>
  /\ input = <<>>
  /\ rest = <<>>
  /\ wire = <<>>
  /\ op = Call("init", NoFlush, 0, 0)
  /\ gave = Gave(0, <<>>)
  /\ ret = Z_OK
  /\ pre = Snapshot("None", NewStream)
  /\ direct = [strm |-> NewStream, ret |-> Z_OK]
  /\ twin = [strm |-> NewStream, ret |-> Z_OK, used |-> 0, out |-> <<>>]
  /\ life = "None"

\* open(Mode, Options): deflateInit2 for compress, inflateInit2 for
\* decompress.  The caller of a compress Session holds the payload S; the
\* caller of a decompress Session holds what arrived of S's encoding.
Open(d, o, S, c) ==
  /\ op.name = "init"
  /\ \E r \in {IF d = "compress"
                THEN CGRPCNIOTransportZlib_deflateInit2(strm, o.level, Z_DEFLATED,
                         o.windowBits, o.memLevel, o.strategy)
                ELSE CGRPCNIOTransportZlib_inflateInit2(strm, o.windowBits)},
        z \in {IF d = "compress"
                THEN deflateInit2(strm, o.level, Z_DEFLATED,
                                  o.windowBits, o.memLevel, o.strategy)
                ELSE inflateInit2(strm, o.windowBits)},
        bytes \in {IF d = "compress" THEN S ELSE Corrupt(OneShot(o, S), c)} :
        /\ strm' = Detach(r.strm)
        /\ ret' = r.ret
        /\ direct' = Outcome(z)
        /\ dir' = IF r.ret = Z_OK THEN d ELSE "none"
        /\ opts' = o
        /\ plain' = S
        /\ input' = bytes
        /\ rest' = bytes
        /\ op' = Call("open", NoFlush, 0, 0)
        /\ gave' = Gave(0, <<>>)
        /\ life' = Life(life, "open", r)
        /\ pre' = Snapshot(life, strm)
  /\ UNCHANGED wire

\* process(input, outputCapacity, flush): one deflate or inflate call on the
\* next n bytes of the caller's input and an empty buffer of cap bytes
Process(n, flush, cap, keep) ==
  /\ dir # "none"
  /\ n <= Len(rest)
  /\ \E r \in {IF dir = "compress"
                THEN CGRPCNIOTransportZlib_deflate(WithBuffers(strm, Take(rest, n), cap), flush)
                ELSE CGRPCNIOTransportZlib_inflate(WithBuffers(strm, Take(rest, n), cap), flush)},
        z \in {IF dir = "compress"
                THEN deflate(WithBuffers(strm, Take(rest, n), cap), flush)
                ELSE inflate(WithBuffers(strm, Take(rest, n), cap), flush)} :
        /\ strm' = Detach(r.strm)
        /\ ret' = r.ret
        /\ direct' = Outcome(z)
        /\ rest' = r.strm.next_in \o Drop(rest, n)
        /\ wire' = IF keep THEN wire \o r.strm.next_out ELSE wire
        /\ op' = Call("process", flush, n, cap)
        /\ gave' = Gave(n - Len(r.strm.next_in), r.strm.next_out)
        /\ life' = Life(life, "process", r)
        /\ pre' = Snapshot(life, strm)
  /\ UNCHANGED <<dir, opts, plain, input>>

\* reset(): deflateReset or inflateReset; the caller starts its input over
Reset ==
  /\ dir # "none"
  /\ \E r \in {IF dir = "compress" THEN CGRPCNIOTransportZlib_deflateReset(strm)
                                      ELSE CGRPCNIOTransportZlib_inflateReset(strm)},
        z \in {IF dir = "compress" THEN deflateReset(strm) ELSE inflateReset(strm)} :
        /\ strm' = Detach(r.strm)
        /\ ret' = r.ret
        /\ direct' = Outcome(z)
        /\ rest' = IF r.ret = Z_OK THEN input ELSE rest
        /\ wire' = IF r.ret = Z_OK THEN <<>> ELSE wire
        /\ op' = Call("reset", NoFlush, 0, 0)
        /\ gave' = Gave(0, <<>>)
        /\ life' = Life(life, "reset", r)
        /\ pre' = Snapshot(life, strm)
  /\ UNCHANGED <<dir, opts, plain, input>>

\* close(): deflateEnd or inflateEnd
Close ==
  /\ dir # "none"
  /\ \E r \in {IF dir = "compress" THEN CGRPCNIOTransportZlib_deflateEnd(strm)
                                      ELSE CGRPCNIOTransportZlib_inflateEnd(strm)},
        z \in {IF dir = "compress" THEN deflateEnd(strm) ELSE inflateEnd(strm)} :
        /\ strm' = Detach(r.strm)
        /\ ret' = r.ret
        /\ direct' = Outcome(z)
        /\ op' = Call("close", NoFlush, 0, 0)
        /\ gave' = Gave(0, <<>>)
        /\ life' = Life(life, "close", r)
        /\ pre' = Snapshot(life, strm)
  /\ UNCHANGED <<dir, opts, plain, input, rest, wire>>

\* bound(n): deflateBound; it returns a number and writes nothing
Bound(n) ==
  /\ dir = "compress"
  /\ ret' = CGRPCNIOTransportZlib_deflateBound(strm, n)
  /\ direct' = [strm |-> strm, ret |-> deflateBound(strm, n)]
  /\ op' = Call("bound", NoFlush, n, 0)
  /\ gave' = Gave(0, <<>>)
  /\ pre' = Snapshot(life, strm)
  /\ UNCHANGED <<strm, dir, opts, plain, input, rest, wire, life>>

(***************************************************************************)
(* The lifecycle specification: a caller that opens one Session with any   *)
(* options, valid or not, and then calls process, reset and close in any   *)
(* order with any chunking, flush mode and output capacity                 *)
(***************************************************************************)
Modes == {"compress", "decompress"}

OptionSet ==
  {Options(6, 15, DEF_MEM_LEVEL, 0), Options(0, 9, DEF_MEM_LEVEL, 0),
   Options(6, 8, DEF_MEM_LEVEL, 0), Options(10, 7, DEF_MEM_LEVEL, 0)}

Flushes == {Z_NO_FLUSH, Z_SYNC_FLUSH, Z_FULL_FLUSH, Z_FINISH}

Caps == {0, 1, BigCap}

Payloads == {<<>>, <<97>>, <<97, 200>>}

NoDamage == [kind |-> "none", at |-> 0, mask |-> 0]

Damage ==
  {NoDamage, [kind |-> "flip", at |-> 3, mask |-> 128],
   [kind |-> "flip", at |-> 9, mask |-> 1], [kind |-> "cut", at |-> 1, mask |-> 0],
   [kind |-> "more", at |-> 0, mask |-> 120]}

MaxOut == 12   \* a compress Session is not driven past this many output bytes

\* The chunk sizes a caller offers: nothing, one byte, or all it has
Chunks(bytes) == {0, 1, Len(bytes)}

OpenAny ==
  /\ \E d \in Modes, o \in OptionSet, S \in Payloads, c \in Damage : Open(d, o, S, c)
  /\ UNCHANGED twin

ProcessAny ==
  /\ strm.total_out < MaxOut
  /\ \E n \in Chunks(rest), f \in Flushes, cap \in Caps :
        Process(n, f, cap, dir = "decompress")
  /\ UNCHANGED twin

ResetAny == Reset /\ UNCHANGED twin

CloseAny == Close /\ UNCHANGED twin

BoundAny == (\E n \in 0..MaxLen : Bound(n)) /\ UNCHANGED twin

Next == OpenAny \/ ProcessAny \/ ResetAny \/ CloseAny \/ BoundAny

Spec == Init /\ [][Next]_vars

\* The streams handed to inflate stay within the blocks the model decodes
\* (stored and fixed-Huffman): no dynamic-Huffman header is ever met
InDomain == strm.state.kind = "inflate" => strm.state.mode # "TABLE"

(***************************************************************************)
(* C1.  Every wrapper of the shim behaves as the zlib function it names:   *)
(* whatever the stream and the arguments, the value it returns and the     *)
(* stream it leaves are those of the direct call with the same arguments.  *)
(***************************************************************************)
ShimIsZlib == op.name # "init" => direct = [strm |-> strm, ret |-> ret]

\* a deflate call through the shim that wrote a whole stream, as zlib would
ShimIsZlibWitness ==
  /\ op.name = "process" /\ dir = "compress" /\ op.flush = Z_FINISH
  /\ ret = Z_STREAM_END /\ gave.used = 2 /\ Len(gave.out) > 6
  /\ direct = [strm |-> strm, ret |-> ret]

(***************************************************************************)
(* Lifecycle                                                               *)
(***************************************************************************)
\* The caller's lifecycle state agrees with the stream: a Closed Session is
\* one whose state is freed, and an Ended one holds a complete stream
LifeMatchesStream ==
  /\ (dir # "none") => (life = "Closed" <=> strm.state = Z_NULL)
  /\ life = "Ended" => Complete(strm)
  /\ life = "None" <=> dir = "none"

Done == op.name = "process" /\ ret = Z_STREAM_END

Called == op.name \in {"process", "reset", "close", "bound"}

\* C2 as the spec states it.  The lifecycle state changes only along:
\* Active to Ended by a process call with Finish that returns done, Ended
\* to Active by reset, Active or Ended to Closed by close; nothing leaves
\* Closed.
LifecycleEdgesFinishOnly ==
  (Called /\ pre.life # life) =>
     \/ pre.life = "Active" /\ life = "Ended" /\ Done /\ op.flush = Z_FINISH
     \/ pre.life = "Ended" /\ life = "Active" /\ op.name = "reset"
     \/ pre.life \in {"Active", "Ended"} /\ life = "Closed" /\ op.name = "close"

\* C2, amended.  The lifecycle state changes only along: Active to Ended by
\* a process call that returns done (which a compress Session does only
\* with Finish, a decompress Session with any flush mode, as soon as it has
\* read the end of the stream), Ended to Active by reset, Active or Ended to
\* Closed by close; nothing leaves Closed.
LifecycleEdges ==
  (Called /\ pre.life # life) =>
     \/ /\ pre.life = "Active" /\ life = "Ended" /\ Done
        /\ dir = "compress" => op.flush = Z_FINISH
     \/ pre.life = "Ended" /\ life = "Active" /\ op.name = "reset"
     \/ pre.life \in {"Active", "Ended"} /\ life = "Closed" /\ op.name = "close"

\* a decompress Session ended by a process call without Finish
LifecycleEdgesWitness ==
  /\ dir = "decompress" /\ pre.life = "Active" /\ life = "Ended"
  /\ Done /\ op.flush = Z_NO_FLUSH /\ wire = plain /\ Len(plain) = 2

(***************************************************************************)
(* C3.  An Ended Session accepts no process call: whatever input, flush    *)
(* mode and output capacity the call offers, it consumes nothing, produces *)
(* nothing and leaves both totals as they were.                            *)
(***************************************************************************)
EndedIsInert ==
  (op.name = "process" /\ pre.life = "Ended") =>
     /\ gave.used = 0
     /\ gave.out = <<>>
     /\ strm.total_in = pre.total_in
     /\ strm.total_out = pre.total_out

\* an Ended compress Session that was offered input and room, and took none
EndedIsInertWitness ==
  /\ op.name = "process" /\ pre.life = "Ended" /\ dir = "compress"
  /\ op.n > 0 /\ op.cap > 0 /\ gave.used = 0 /\ gave.out = <<>>

(***************************************************************************)
(* Totals                                                                  *)
(***************************************************************************)
NotLess ==
  /\ strm.total_in >= pre.total_in
  /\ strm.total_out >= pre.total_out

\* C4 as the spec states it.  total_in and total_out never decrease, across
\* process (failing or not), reset and close.
TotalsMonotone == op.name \in {"process", "reset", "close"} => NotLess

\* C4, amended.  total_in and total_out never decrease across process
\* (failing or not) and close; a reset that is accepted sets both to zero.
TotalsMonotoneButReset ==
  /\ op.name \in {"process", "close"} => NotLess
  /\ (op.name = "reset" /\ ret = Z_OK) => (strm.total_in = 0 /\ strm.total_out = 0)
  /\ (op.name = "reset" /\ ret # Z_OK) => NotLess

\* a reset that took the totals of a Session in use back to zero
TotalsWitness ==
  /\ op.name = "reset" /\ ret = Z_OK
  /\ pre.total_in > 0 /\ pre.total_out > 0
  /\ strm.total_in = 0 /\ strm.total_out = 0

(***************************************************************************)
(* Closing twice                                                           *)
(***************************************************************************)
SecondClose == op'.name = "close" /\ life = "Closed"

Accepted == ret \in {Z_OK, Z_STREAM_END}

\* the Session does not hand out, as a finished payload, anything but the
\* payload that was encoded
NeverWrong == (dir = "decompress" /\ Done) => wire = plain

\* C8 as the spec states it.  Once a process call has returned
\* CorruptStream (Z_DATA_ERROR), no later process call succeeds, writes
\* output or reports done, and only close is accepted; no wrong payload is
\* ever handed out as finished.
CorruptIsFatal ==
  /\ (pre.corrupt /\ op.name \in {"process", "reset"}) => ~Accepted
  /\ (pre.corrupt /\ op.name = "process") => gave.out = <<>>
  /\ NeverWrong

\* C8, amended.  Once a process call has returned CorruptStream
\* (Z_DATA_ERROR), every later process call fails the same way, consuming
\* and producing nothing, until reset or close; reset is accepted and makes
\* the Session Active and usable again; no wrong payload is ever handed out
\* as finished.
CorruptUntilReset ==
  /\ (op.name = "process" /\ ret = Z_DATA_ERROR) => Corrupted(strm)
  /\ (pre.corrupt /\ op.name = "process") =>
        /\ ret = Z_DATA_ERROR /\ Corrupted(strm)
        /\ gave.used = 0 /\ gave.out = <<>>
  /\ (pre.corrupt /\ op.name = "reset") =>
        /\ ret = Z_OK /\ ~Corrupted(strm) /\ life = "Active"
  /\ NeverWrong

\* a Session that reported CorruptStream after consuming input, then reset
CorruptUntilResetWitness ==
  /\ op.name = "reset" /\ pre.corrupt /\ pre.total_in > 2 /\ pre.total_out > 0
  /\ ret = Z_OK /\ life = "Active"

(***************************************************************************)
(* The round-trip specification: a compress Session is fed a payload in    *)
(* chunks, with any flush modes, the last chunk with Finish; what it wrote *)
(* is then given to a decompress Session opened with the same windowBits   *)
(***************************************************************************)
TripLevels == {0, 1, 6, 9}

TripWindowBits == {8, 9, 12, 15}

TripStrategies == {0, Z_FILTERED, Z_HUFFMAN_ONLY, Z_RLE}

TripOptions ==
  {Options(l, w, DEF_MEM_LEVEL, s) :
     l \in TripLevels, w \in TripWindowBits, s \in TripStrategies}

OpenTrip ==
  /\ \E o \in TripOptions, S \in SeqsUpTo(MaxLen) : Open("compress", o, S, NoDamage)
  /\ UNCHANGED twin

\* one chunk; Finish goes with the last chunk
Feed ==
  /\ life = "Active"
  /\ strm.total_out < MaxOut
  /\ \E n \in 0..Len(rest), f \in Flushes :
        /\ f = Z_FINISH => n = Len(rest)
        /\ Process(n, f, BigCap, TRUE)
  /\ UNCHANGED twin

\* open a decompress Session with the compressor's windowBits and give it
\* everything the compressor wrote
Decode ==
  /\ life = "Ended"
  /\ op.name = "process"
  /\ \E i \in {CGRPCNIOTransportZlib_inflateInit2(NewStream, opts.windowBits)} :
       \E r \in {CGRPCNIOTransportZlib_inflate(WithBuffers(i.strm, wire, BigCap),
                                                Z_FINISH)} :
          twin' = [strm |-> Detach(r.strm), ret |-> r.ret,
                   used |-> Len(wire) - Len(r.strm.next_in), out |-> r.strm.next_out]
  /\ op' = Call("decode", Z_FINISH, Len(wire), BigCap)
  /\ UNCHANGED <<strm, dir, opts, plain, input, rest, wire, gave, ret, pre, direct,
                 life>>

NextTrip == OpenTrip \/ Feed \/ Decode

SpecTrip == Init /\ [][NextTrip]_vars

\* C6 as the spec states it.  For every payload S, every option set with
\* level 0-9, windowBits 8-15 and any strategy, and every split of S into
\* chunks ending with Finish, a decompress Session opened with the same
\* windowBits turns the compressor's output into S and reports done.
RoundTrip ==
  op.name = "decode" => (twin.ret = Z_STREAM_END /\ twin.out = plain)

\* C6, amended.  The same, for windowBits 9-15.
RoundTripFromNine ==
  (op.name = "decode" /\ opts.windowBits >= 9) =>
     (twin.ret = Z_STREAM_END /\ twin.out = plain)

\* a payload of MaxLen bytes fed in more than one chunk, with a flush on
\* the way, and decoded
RoundTripWitness ==
  /\ op.name = "decode" /\ opts.windowBits = 9 /\ opts.level = 6
  /\ Len(plain) = MaxLen /\ Len(wire) > Len(OneShot(opts, plain))
  /\ twin.ret = Z_STREAM_END /\ twin.out = plain

(***************************************************************************)
(* The drain-and-retry specification: a caller whose output buffers are    *)
(* small, even empty.  It may call process in any way; what it keeps doing *)
(* is to take the output away and call process again with all the input it *)
(* has left, Finish, and a buffer with room.                               *)
(***************************************************************************)
DrainOptions == {Options(6, 15, DEF_MEM_LEVEL, 0), Options(0, 15, DEF_MEM_LEVEL, 0)}

SmallCaps == {1, MaxCap}

OpenDrain ==
  /\ \E d \in Modes, o \in DrainOptions, S \in SeqsUpTo(MaxLen) :
        Open(d, o, S, NoDamage)
  /\ UNCHANGED twin

\* any call but the retry: without Finish, or with Finish and no room; a
\* compress caller gives Finish with its last chunk only
Offer ==
  /\ life = "Active"
  /\ strm.total_out < MaxOut
  /\ \E n \in Chunks(rest), f \in Flushes, cap \in {0} \cup SmallCaps :
        /\ f = Z_FINISH => cap = 0
        /\ (f = Z_FINISH /\ dir = "compress") => n = Len(rest)
        /\ Process(n, f, cap, TRUE)
  /\ UNCHANGED twin

Retry ==
  /\ life = "Active"
  /\ \E cap \in SmallCaps : Process(Len(rest), Z_FINISH, cap, TRUE)
  /\ UNCHANGED twin

NextDrain == OpenDrain \/ Offer \/ Retry

\* A retry, told by the call it leaves in op: a step of NextDrain is a
\* RetryCall step exactly when it is a Retry step, and a retry is possible
\* exactly when the Session is Active.  The fairness the caller of C7
\* provides: while the Session is Active it does not stop, and does not go
\* on forever without draining and retrying.
RetryCall ==
  /\ life = "Active"
  /\ op' \in {Call("process", Z_FINISH, Len(rest), cap) : cap \in SmallCaps}

SpecDrain == Init /\ [][NextDrain]_vars /\ WF_op(RetryCall)

\* what a decoder makes of bytes: a decompress Session with the largest
\* window, given all of them at once
Decoded(bytes) ==
  LET i == CGRPCNIOTransportZlib_inflateInit2(NewStream, 15)
      r == CGRPCNIOTransportZlib_inflate(WithBuffers(i.strm, bytes, BigCap), Z_FINISH)
  IN [ret |-> r.ret, out |-> r.strm.next_out]

BufferExhausted == op.name = "process" /\ ret = Z_BUF_ERROR

\* the input is consumed once, in order: what is left is the input without
\* the total_in bytes consumed so far
NothingLost ==
  /\ strm.total_in = pre.total_in + gave.used
  /\ rest = Drop(input, strm.total_in)

Finished ==
  /\ life = "Ended"
  /\ rest = <<>>
  /\ IF dir = "compress"
     THEN Decoded(wire) = [ret |-> Z_STREAM_END, out |-> plain]
     ELSE wire = plain

\* C7.  A process call that fails with BufferExhausted (Z_BUF_ERROR) leaves
\* the Session Active and loses or re-consumes no input, and a caller that
\* keeps draining and retrying with all its remaining input and Finish
\* eventually has all of it consumed and done reported, the drained output
\* being a valid encoding of the whole input (or, decompressing, the payload).
Recoverable ==
  /\ [](BufferExhausted => (life = "Active" /\ NothingLost))
  /\ BufferExhausted ~> Finished

\* a compress call that failed for want of room, with input still to take
RecoverableWitness ==
  /\ BufferExhausted /\ dir = "compress" /\ op.cap = 0 /\ op.n > 0
  /\ rest # <<>> /\ strm.total_out > 0 /\ life = "Active"

(***************************************************************************)
(* The reset specification: a Session is used in any way, then reset; from *)
(* then on every call made on it is also made, with the same arguments, on *)
(* a twin: a Session opened afresh with the same options                   *)
(***************************************************************************)
ResetOptions ==
  {Options(6, 15, DEF_MEM_LEVEL, 0), Options(0, 9, DEF_MEM_LEVEL, 0),
   Options(1, 8, DEF_MEM_LEVEL, Z_RLE)}

ResetDamage == {NoDamage, [kind |-> "flip", at |-> 3, mask |-> 128]}

Twinned == twin.strm.state # Z_NULL

Fresh(d, o) ==
  IF d = "compress" THEN OpenCompress(o)
  ELSE CGRPCNIOTransportZlib_inflateInit2(NewStream, o.windowBits)

OpenFirst ==
  /\ \E d \in Modes, o \in ResetOptions, S \in Payloads, c \in ResetDamage :
        Open(d, o, S, c)
  /\ UNCHANGED twin

\* the use made of the Session before it is reset
Before ==
  /\ ~Twinned
  /\ life \in {"Active", "Ended"}
  /\ strm.total_out < MaxOut
  /\ \E n \in Chunks(rest), f \in Flushes, cap \in Caps : Process(n, f, cap, TRUE)
  /\ UNCHANGED twin

ResetTwin ==
  /\ ~Twinned
  /\ life \in {"Active", "Ended"}
  /\ Reset
  /\ twin' = [strm |-> Detach(Fresh(dir, opts).strm), ret |-> Z_OK,
              used |-> 0, out |-> <<>>]

\* the same call on the reset Session and on its twin
Both ==
  /\ Twinned
  /\ strm.total_out < MaxOut
  /\ \E n \in Chunks(rest), f \in Flushes, cap \in Caps :
        /\ Process(n, f, cap, TRUE)
        /\ \E t \in {IF dir = "compress"
                     THEN CGRPCNIOTransportZlib_deflate(
                            WithBuffers(twin.strm, Take(rest, n), cap), f)
                     ELSE CGRPCNIOTransportZlib_inflate(
                            WithBuffers(twin.strm, Take(rest, n), cap), f)} :
             twin' = [strm |-> Detach(t.strm), ret |-> t.ret,
                      used |-> n - Len(t.strm.next_in), out |-> t.strm.next_out]

NextReset == OpenFirst \/ Before \/ ResetTwin \/ Both

SpecReset == Init /\ [][NextReset]_vars

\* the options a stream was opened with, as its state holds them
OptionsOf(s) ==
  IF s.state.kind = "deflate"
  THEN <<"compress", s.state.level, s.state.strategy, s.state.w_bits,
         s.state.hash_bits, s.state.wrap>>
  ELSE <<"decompress", s.state.wbits, s.state.wrap>>

\* C9.  reset on an Active or Ended Session is accepted and returns it to
\* its just-opened state: direction, level, windowBits and strategy are
\* those of the open call, the history buffer is the allocation it was,
\* both totals are 0, the Session is Active, and every later process call
\* consumes, writes and returns what it does on a freshly opened Session
\* with the same options.
ResetIsFresh ==
  Twinned =>
    /\ op.name = "reset" =>
         /\ ret = Z_OK /\ life = "Active"
         /\ strm.total_in = 0 /\ strm.total_out = 0
         /\ strm.state.walloc = pre.walloc
         /\ OptionsOf(strm) = OptionsOf(twin.strm)
    /\ op.name = "process" =>
         /\ gave = Gave(twin.used, twin.out)
         /\ ret = twin.ret
         /\ strm.total_in = twin.strm.total_in
         /\ strm.total_out = twin.strm.total_out
         /\ strm.adler = twin.strm.adler
         /\ OptionsOf(strm) = OptionsOf(twin.strm)

\* a decompress Session reset after CorruptStream, or after its window was
\* allocated, that decodes as its twin does
ResetIsFreshWitness ==
  /\ Twinned /\ op.name = "process" /\ dir = "decompress"
  /\ strm.state.walloc = 1 /\ twin.strm.state.walloc = 0
  /\ gave.out # <<>> /\ gave.out = twin.out

(***************************************************************************)
(* C10.  bound(n) of a compress Session is at least the number of bytes    *)
(* that compressing any input of at most n bytes writes, in one process    *)
(* call with Finish on a Session with the same options; and bound leaves   *)
(* the Session as it was.  (Checked under Spec, whose Bound action asks    *)
(* for the bound of every n up to MaxLen in every state of a Session.)     *)
(***************************************************************************)
BoundCovers ==
  (op.name = "bound" /\ life \in {"Active", "Ended"}) =>
     /\ \A S \in SeqsUpTo(MaxLen) : Len(S) <= op.n => Len(OneShot(opts, S)) <= ret
     /\ Snapshot(life, strm) = pre

====
